---- MODULE Spec2Model ----
(***************************************************************************)
(* Model of src/generate_data.py: the drug-name resolution pipeline.       *)
(*                                                                         *)
(* Strings are sequences of Unicode code points (integers), so that        *)
(* str.lower(), substring tests, str.split() and the token-sort similarity *)
(* are computed as the code computes them.  Scores are exact rationals     *)
(* <<n, d>> in lowest terms (the value n/d), so that the comparisons with  *)
(* 100.0 and with THRESHOLD are exact.                                     *)
(***************************************************************************)
EXTENDS Integers, Sequences, FiniteSets, TLC

(***************************************************************************)
(* Bounds of the model.                                                    *)
(***************************************************************************)
MaxQueryLen == 3

MaxCatalog == 2

MaxTopN == 2

(***************************************************************************)
(* Program constants.                                                      *)
(***************************************************************************)
THRESHOLD == 50

(***************************************************************************)
(* Generic sequence helpers.                                               *)
(***************************************************************************)
Min(a, b) == IF a <= b THEN a ELSE b

Max(a, b) == IF a >= b THEN a ELSE b

\* Python slice s[:n]
Take(s, n) == SubSeq(s, 1, Min(n, Len(s)))

\* all sequences over S of length 0..n
SeqsUpTo(S, n) == UNION {[1..k -> S] : k \in 0..n}

\* sequences without repeated elements
NoDup(s) == \A i, j \in 1..Len(s) : i # j => s[i] # s[j]

(***************************************************************************)
(* Exact rational scores.                                                  *)
(***************************************************************************)
RECURSIVE GCD(_, _)
GCD(a, b) == IF b = 0 THEN a ELSE GCD(b, a % b)

Frac(n, d) == LET g == GCD(n, d) IN <<n \div g, d \div g>>

\* the float 100.0
Hundred == <<100, 1>>

\* a >= b, a < b on scores; s >= k for an integer k
ScoreGE(a, b) == a[1] * b[2] >= b[1] * a[2]

ScoreLT(a, b) == a[1] * b[2] < b[1] * a[2]

ScoreGEInt(s, k) == s[1] >= k * s[2]

(***************************************************************************)
(* Python str operations on code-point sequences.                          *)
(***************************************************************************)
\* the simple lower-case mapping of one code point (ASCII and Latin-1
\* capitals; Arabic has no case)
LowerChar(c) ==
    IF c \in 65..90 \/ c \in 192..222 \ {215} THEN c + 32 ELSE c

\* str.lower() of one code point: U+0130 (capital I with dot above) becomes
\* the two code points i, U+0307
LowerFull(c) == IF c = 304 THEN <<105, 775>> ELSE <<LowerChar(c)>>

RECURSIVE LowerFrom(_, _)
LowerFrom(s, i) ==
    IF i > Len(s) THEN <<>> ELSE LowerFull(s[i]) \o LowerFrom(s, i + 1)

\* str.lower()
Lower(s) ==
    IF \E i \in 1..Len(s) : s[i] = 304 THEN LowerFrom(s, 1)
    ELSE [i \in 1..Len(s) |-> LowerChar(s[i])]

\* the characters str.split() and \s treat as whitespace
IsSpace(c) == c \in {9, 10, 11, 12, 13, 32}

\* Python's `a in b` on strings
IsSubstring(a, b) ==
    \E i \in 0..(Len(b) - Len(a)) : SubSeq(b, i + 1, i + Len(a)) = a

\* Python's string order: lexicographic on code points
RECURSIVE StrLess(_, _)
StrLess(a, b) ==
    IF b = <<>> THEN FALSE
    ELSE IF a = <<>> THEN TRUE
    ELSE IF Head(a) # Head(b) THEN Head(a) < Head(b)
    ELSE StrLess(Tail(a), Tail(b))

\* str.split(): the maximal runs of non-whitespace characters
RECURSIVE SplitWs(_, _)
SplitWs(s, cur) ==
    IF s = <<>> THEN (IF cur = <<>> THEN <<>> ELSE <<cur>>)
    ELSE IF IsSpace(Head(s))
         THEN (IF cur = <<>> THEN <<>> ELSE <<cur>>) \o SplitWs(Tail(s), <<>>)
         ELSE SplitWs(Tail(s), Append(cur, Head(s)))

\* sorted(tokens): insertion into an ascending sequence
RECURSIVE InsertToken(_, _)
InsertToken(t, sorted) ==
    IF sorted = <<>> THEN <<t>>
    ELSE IF StrLess(t, Head(sorted)) THEN <<t>> \o sorted
    ELSE <<Head(sorted)>> \o InsertToken(t, Tail(sorted))

RECURSIVE SortTokens(_)
SortTokens(ts) ==
    IF ts = <<>> THEN <<>> ELSE InsertToken(Head(ts), SortTokens(Tail(ts)))

\* " ".join(tokens)
RECURSIVE JoinSpace(_)
JoinSpace(ts) ==
    IF ts = <<>> THEN <<>>
    ELSE IF Len(ts) = 1 THEN Head(ts)
    ELSE Head(ts) \o <<32>> \o JoinSpace(Tail(ts))

(***************************************************************************)
(* rapidfuzz: fuzz.ratio, fuzz.token_sort_ratio, process.extract.          *)
(* (`from rapidfuzz import process, fuzz` at line 12 rebinds the fuzz of    *)
(* fuzzywuzzy; scores are floats and no processor is applied.)             *)
(***************************************************************************)
\* one row of the longest-common-subsequence table: cur[j] for the prefix of
\* b of length j, given the row prev of the previous character
RECURSIVE LcsRow(_, _, _, _)
LcsRow(c, b, prev, cur) ==
    IF Len(cur) = Len(b) THEN cur
    ELSE LET j == Len(cur) + 1
             diag == IF j = 1 THEN 0 ELSE prev[j - 1]
             left == IF j = 1 THEN 0 ELSE cur[j - 1]
             v == IF c = b[j] THEN diag + 1 ELSE Max(prev[j], left)
         IN  LcsRow(c, b, prev, Append(cur, v))

RECURSIVE LcsRows(_, _, _)
LcsRows(a, b, prev) ==
    IF a = <<>> THEN prev
    ELSE LcsRows(Tail(a), b, LcsRow(Head(a), b, prev, <<>>))

\* length of a longest common subsequence
LCS(a, b) ==
    IF b = <<>> THEN 0
    ELSE LcsRows(a, b, [j \in 1..Len(b) |-> 0])[Len(b)]

\* fuzz.ratio: normalised Indel similarity, 100 * 2*LCS / (len1 + len2)
ratio(a, b) ==
    IF Len(a) + Len(b) = 0 THEN Hundred
    ELSE Frac(200 * LCS(a, b), Len(a) + Len(b))

\* fuzz.token_sort_ratio: split, sort the tokens, join, then ratio
token_sort_ratio(a, b) ==
    ratio(JoinSpace(SortTokens(SplitWs(a, <<>>))),
          JoinSpace(SortTokens(SplitWs(b, <<>>))))

\* one scored choice, the tuple (choice, score, index) of process.extract
Scored(query, choices) ==
    [i \in 1..Len(choices) |->
        [name |-> choices[i], score |-> token_sort_ratio(query, choices[i]),
         index |-> i]]

\* stable sort by non-increasing score (list.sort(key=score, reverse=True))
RECURSIVE InsertByScore(_, _)
InsertByScore(x, sorted) ==
    IF sorted = <<>> THEN <<x>>
    ELSE IF ScoreLT(Head(sorted).score, x.score) THEN <<x>> \o sorted
    ELSE <<Head(sorted)>> \o InsertByScore(x, Tail(sorted))

RECURSIVE SortByScoreFrom(_, _)
SortByScoreFrom(s, acc) ==
    IF s = <<>> THEN acc
    ELSE SortByScoreFrom(Tail(s), InsertByScore(Head(s), acc))

\* the sort without reverse=True: ascending scores
SortByScoreAscending(s) ==
    LET d == SortByScoreFrom(s, <<>>)
    IN  [i \in 1..Len(d) |-> d[Len(d) + 1 - i]]

SortByScore(s) == SortByScoreFrom(s, <<>>)

\* process.extract(query, choices, scorer=token_sort_ratio, limit=limit)
extract(query, choices, limit) ==
    Take(SortByScore(Scored(query, choices)), limit)

(***************************************************************************)
(* MedicineMatcher.get_top_matches                                         *)
(***************************************************************************)
\* the substring test without lower-casing
ExactMatchesCaseSensitive(query, drug_list) ==
    LET hit(drug) == IsSubstring(query, drug)
    IN  SelectSeq(drug_list, hit)

\* exact_matches = [drug for drug in drug_list if query_lower in drug.lower()]
ExactMatches(query, drug_list) ==
    LET hit(drug) == IsSubstring(Lower(query), Lower(drug))
    IN  SelectSeq(drug_list, hit)

\* no threshold filter
FilterThresholdNone(results) == results

\* filtered = [res for res in results if res[1] >= THRESHOLD]
FilterThreshold(results) ==
    LET keep(res) == ScoreGEInt(res.score, THRESHOLD)
    IN  SelectSeq(results, keep)

\* the exact-substring return value with the lower-cased names
ExactResultLowered(exact_matches, topN) ==
    LET ms == Take(exact_matches, topN)
    IN  [i \in 1..Len(ms) |-> [name |-> Lower(ms[i]), score |-> Hundred]]

\* the exact-substring return value
ExactResult(exact_matches, topN) ==
    LET ms == Take(exact_matches, topN)
    IN  [i \in 1..Len(ms) |-> [name |-> ms[i], score |-> Hundred]]

\* the approximate return value, from the filtered candidates
ApproxResult(filtered, topN) ==
    LET fs == Take(SortByScore(filtered), topN)
    IN  [i \in 1..Len(fs) |-> [name |-> fs[i].name, score |-> fs[i].score]]

\* one run of get_top_matches: the returned list, whether process.extract
\* was called, and the local `results`
MatchRun(query, drug_list, topN) ==
    LET exact_matches == ExactMatches(query, drug_list)
    IN  IF exact_matches # <<>>
        THEN [ret |-> ExactResult(exact_matches, topN),
              extract_called |-> FALSE, results |-> <<>>]
        ELSE LET results == extract(query, drug_list, topN * 5)
             IN  [ret |-> ApproxResult(FilterThreshold(results), topN),
                  extract_called |-> TRUE, results |-> results]

get_top_matches(query, drug_list, topN) == MatchRun(query, drug_list, topN).ret

(***************************************************************************)
(* MedicineMatcher.clean_text                                              *)
(***************************************************************************)
\* \w of a Unicode regex: digits, Latin and accented letters (Latin-1 and
\* Latin Extended-A), underscore, Arabic letters and Arabic-Indic digits;
\* combining marks such as U+0301, U+0307 and U+0653 are not \w
IsWord(c) ==
    \/ c \in 48..57
    \/ c \in 65..90
    \/ c \in 97..122
    \/ c = 95
    \/ c \in 192..255 \ {215, 247}
    \/ c \in 256..383
    \/ c \in 1568..1610
    \/ c \in 1632..1641

\* the Arabic block ؀-ۿ
IsArabic(c) == c \in 1536..1791

\* canonical composition of a base character with a following combining mark:
\* e + U+0301 -> U+00E9, e + U+0307 -> U+0117, I + U+0307 -> U+0130,
\* alef + madda above (U+0653) -> U+0622
Compose(a, b) ==
    IF a = 101 /\ b = 769 THEN 233
    ELSE IF a = 101 /\ b = 775 THEN 279
    ELSE IF a = 73 /\ b = 775 THEN 304
    ELSE IF a = 1575 /\ b = 1619 THEN 1570
    ELSE 0

\* unicodedata.normalize('NFC', text)
RECURSIVE NFC(_)
NFC(s) ==
    IF Len(s) < 2 THEN s
    ELSE IF Compose(s[1], s[2]) # 0
         THEN <<Compose(s[1], s[2])>> \o NFC(SubSeq(s, 3, Len(s)))
         ELSE <<s[1]>> \o NFC(Tail(s))

\* re.sub(r'[^\w\s؀-ۿ]', '', text)
StripNoise(s) ==
    LET keep(c) == IsWord(c) \/ IsSpace(c) \/ IsArabic(c)
    IN  SelectSeq(s, keep)

\* re.sub(r'\s+', ' ', text): every run of whitespace becomes one space
RECURSIVE CollapseWs(_)
CollapseWs(s) ==
    IF s = <<>> THEN <<>>
    ELSE IF IsSpace(Head(s))
         THEN IF Len(s) > 1 /\ IsSpace(s[2]) THEN CollapseWs(Tail(s))
              ELSE <<32>> \o CollapseWs(Tail(s))
         ELSE <<Head(s)>> \o CollapseWs(Tail(s))

\* str.strip()
RECURSIVE LStrip(_)
LStrip(s) == IF s # <<>> /\ IsSpace(Head(s)) THEN LStrip(Tail(s)) ELSE s

RECURSIVE RStrip(_)
RStrip(s) ==
    IF s # <<>> /\ IsSpace(s[Len(s)]) THEN RStrip(SubSeq(s, 1, Len(s) - 1))
    ELSE s

Strip(s) == RStrip(LStrip(s))

clean_text(text) == Lower(Strip(CollapseWs(StripNoise(NFC(text)))))

(***************************************************************************)
(* extract_doctor_name                                                     *)
(***************************************************************************)
\* the alternatives of (دكتور|الدكتور|د\.|د), in the order the regex tries them
ArabicMarkers ==
    << <<1583, 1603, 1578, 1608, 1585>>,
       <<1575, 1604, 1583, 1603, 1578, 1608, 1585>>,
       <<1583, 46>>,
       <<1583>> >>

\* the alternatives of (dr\.?|doctor): "dr.", "dr", "doctor"
EnglishMarkers ==
    << <<100, 114, 46>>, <<100, 114>>, <<100, 111, 99, 116, 111, 114>> >>

\* the marker m matches text at position i (re.IGNORECASE when ci)
MarkerAt(text, i, m, ci) ==
    /\ i + Len(m) - 1 <= Len(text)
    /\ \A k \in 1..Len(m) :
          IF ci THEN LowerChar(text[i + k - 1]) = LowerChar(m[k])
          ELSE text[i + k - 1] = m[k]

\* length of the whitespace run of text starting at position p
RECURSIVE WsRun(_, _)
WsRun(text, p) ==
    IF p <= Len(text) /\ IsSpace(text[p]) THEN 1 + WsRun(text, p + 1) ELSE 0

\* \s* is greedy and backtracks: the largest k <= w such that the character
\* after k blanks exists and is not a newline (0 - 1 when there is none)
RECURSIVE NameStart(_, _, _)
NameStart(text, p, k) ==
    IF k < 0 THEN 0 - 1
    ELSE IF p + k <= Len(text) /\ text[p + k] # 10 THEN p + k
    ELSE NameStart(text, p, k - 1)

\* ([^\n]+?)(?=\n|$|\.|,): the shortest non-empty run from q whose next
\* character is a newline, a period, a comma or the end of the text
RECURSIVE LazyEnd(_, _)
LazyEnd(text, e) ==
    IF e = Len(text) \/ text[e + 1] \in {10, 46, 44} THEN e
    ELSE LazyEnd(text, e + 1)

\* ([^\n]+): the longest run of non-newline characters from q
RECURSIVE GreedyEnd(_, _)
GreedyEnd(text, e) ==
    IF e = Len(text) \/ text[e + 1] = 10 THEN e ELSE GreedyEnd(text, e + 1)

\* group 2 of the pattern <markers>\s*<name> anchored at position i with
\* alternative m; <<>> wrapped in a record with found = FALSE when no match
MatchAt(text, i, m, ci, lazy) ==
    IF ~MarkerAt(text, i, m, ci) THEN [found |-> FALSE, name |-> <<>>]
    ELSE LET p == i + Len(m)
             q == NameStart(text, p, WsRun(text, p))
         IN  IF q < 0 THEN [found |-> FALSE, name |-> <<>>]
             ELSE [found |-> TRUE,
                   name |-> SubSeq(text, q, IF lazy THEN LazyEnd(text, q)
                                            ELSE GreedyEnd(text, q))]

\* the match m if it is one, else the alternative
OrMatch(m, other) == IF m.found THEN m ELSE other

\* the first alternative, from index a on, that matches at position i
RECURSIVE AltsAt(_, _, _, _, _, _)
AltsAt(text, i, markers, a, ci, lazy) ==
    IF a > Len(markers) THEN [found |-> FALSE, name |-> <<>>]
    ELSE OrMatch(MatchAt(text, i, markers[a], ci, lazy),
                 AltsAt(text, i, markers, a + 1, ci, lazy))

\* re.search: the match at the leftmost position
RECURSIVE SearchFrom(_, _, _, _, _)
SearchFrom(text, i, markers, ci, lazy) ==
    IF i > Len(text) THEN [found |-> FALSE, name |-> <<>>]
    ELSE OrMatch(AltsAt(text, i, markers, 1, ci, lazy),
                 SearchFrom(text, i + 1, markers, ci, lazy))

re_search(text, markers, ci, lazy) == SearchFrom(text, 1, markers, ci, lazy)

\* re.sub(r'[^\w\s؀-ۿ]+$', '', name) (arabic) and
\* re.sub(r'[^\w\s]+$', '', name) (english)
RECURSIVE StripTrailingPunct(_, _)
StripTrailingPunct(name, arabic) ==
    IF name = <<>> THEN name
    ELSE LET c == name[Len(name)]
         IN  IF IsWord(c) \/ IsSpace(c) \/ (arabic /\ IsArabic(c)) THEN name
             ELSE StripTrailingPunct(SubSeq(name, 1, Len(name) - 1), arabic)

\* Python None and a str value, for variables that hold either
None == [k |-> "none", s |-> <<>>]

Str(s) == [k |-> "str", s |-> s]

\* name = match.group(2).strip(), then the trailing punctuation removed
MatchedName(m, arabic) ==
    IF m.found THEN Str(StripTrailingPunct(Strip(m.name), arabic)) ELSE None

\* a value unless it is None, else the alternative
OrElse(v, other) == IF v # None THEN v ELSE other

\* the name a pattern list yields: the first pattern that matches
PatternName(text, markers, ci, arabic) ==
    MatchedName(OrMatch(re_search(text, markers, ci, TRUE),
                        re_search(text, markers, ci, FALSE)), arabic)

\* the english patterns tried before the arabic ones
FirstPatternEnglishFirst(t) ==
    OrElse(PatternName(t, EnglishMarkers, TRUE, FALSE),
           PatternName(t, ArabicMarkers, FALSE, TRUE))

\* the arabic patterns, then the english ones, on the normalised text
FirstPattern(t) ==
    OrElse(PatternName(t, ArabicMarkers, FALSE, TRUE),
           PatternName(t, EnglishMarkers, TRUE, FALSE))

extract_doctor_name(text) ==
    IF text = <<>> THEN None ELSE FirstPattern(NFC(text))

(***************************************************************************)
(* Spreadsheet cells and the values they decode to.                        *)
(*                                                                         *)
(* A cell is NaN/empty ("nan"), a number ("num"), or a string: one that    *)
(* json.loads accepts ("json", decoding to val), one that only             *)
(* ast.literal_eval accepts ("literal", decoding to val), or neither       *)
(* ("raw").  raw is the string itself where the code uses it.              *)
(* A decoded value is a list, a dict (a record whose fields are its keys), *)
(* a str or an int.                                                        *)
(***************************************************************************)
VStr(s) == [t |-> "str", s |-> s]

VInt == [t |-> "int"]

VDict(d) == [t |-> "dict", d |-> d]

VList(items) == [t |-> "list", items |-> items]

CellNaN == [kind |-> "nan"]

CellNum == [kind |-> "num"]

CellJson(v) == [kind |-> "json", val |-> v]

CellLiteral(v, raw) == [kind |-> "literal", val |-> v, raw |-> raw]

CellRaw(raw) == [kind |-> "raw", raw |-> raw]

\* pd.isna(x) or x in ["", "null", "None"]
IsMissing(cell) == cell.kind = "nan"

\* the code points of 'name', 'text' and 'description' are not needed: a
\* dict key is a field name of the record that models the dict
HasKey(v, key) == key \in DOMAIN v.d

\* the outcome of `key in v` for a decoded value v: "yes", "no", or "raise"
\* (TypeError: argument of type 'int' is not iterable)
KeyIn(v, key, keyChars) ==
    IF v.t = "dict" THEN (IF HasKey(v, key) THEN "yes" ELSE "no")
    ELSE IF v.t = "str" THEN (IF IsSubstring(keyChars, v.s) THEN "yes" ELSE "no")
    ELSE IF v.t = "list" THEN "no"
    ELSE "raise"

\* 'name' and 'description' as code points
NameKey == <<110, 97, 109, 101>>

DescriptionKey == <<100, 101, 115, 99, 114, 105, 112, 116, 105, 111, 110>>

(***************************************************************************)
(* extract_drugs_from_confirmed                                            *)
(***************************************************************************)
\* an undecodable string taken as the name of one confirmed drug
DecodeConfirmedRawAsName(cell) ==
    IF cell.kind \in {"json", "literal"} THEN cell.val
    ELSE IF cell.kind = "raw" THEN VList(<<VDict([name |-> VStr(cell.raw)])>>)
    ELSE VInt

\* json.loads, then ast.literal_eval, then the raw value itself
DecodeConfirmed(cell) ==
    IF cell.kind \in {"json", "literal"} THEN cell.val
    ELSE IF cell.kind = "raw" THEN VStr(cell.raw)
    ELSE VInt

\* `'name' in item` followed by item.get('name', '') raises for this item:
\* a non-iterable item (TypeError) or a str containing 'name' (AttributeError)
ItemRaises(item) ==
    \/ KeyIn(item, "name", NameKey) = "raise"
    \/ item.t # "dict" /\ KeyIn(item, "name", NameKey) = "yes"

\* the comprehension without its `if 'name' in item` filter: every dict
\* becomes a candidate, with name '' when it has no 'name' key
ConfirmedEntriesUnfiltered(items) ==
    LET isdict(item) == item.t = "dict"
        kept == SelectSeq(items, isdict)
    IN  [i \in 1..Len(kept) |->
            [name |-> IF HasKey(kept[i], "name") THEN kept[i].d.name.s
                      ELSE <<>>,
             score |-> Hundred]]

\* [{"name": item.get('name', ''), "score": 100.0}
\*  for item in drugs_data if 'name' in item]
ConfirmedEntries(items) ==
    LET named(item) == KeyIn(item, "name", NameKey) = "yes"
        kept == SelectSeq(items, named)
    IN  [i \in 1..Len(kept) |-> [name |-> kept[i].d.name.s, score |-> Hundred]]

extract_drugs_from_confirmed(confirmed_drugs) ==
    IF IsMissing(confirmed_drugs) THEN <<>>
    ELSE LET drugs_data == DecodeConfirmed(confirmed_drugs)
         IN  IF drugs_data.t = "list"
             THEN IF \E i \in 1..Len(drugs_data.items) :
                        ItemRaises(drugs_data.items[i])
                  THEN <<>>
                  ELSE ConfirmedEntries(drugs_data.items)
             ELSE <<>>

(***************************************************************************)
(* extract_text_from_field: [exc, text]; exc is an exception that leaves   *)
(* the function.                                                           *)
(***************************************************************************)
\* the text a decoded dict or list yields, and whether decoding it raises
TextOfParsed(parsed) ==
    IF parsed.t = "dict"
    THEN [exc |-> FALSE,
          text |-> IF HasKey(parsed, "text") THEN parsed.d.text.s ELSE <<>>]
    ELSE IF parsed.t = "list" /\ parsed.items # <<>>
    THEN LET first == parsed.items[1]
             has == KeyIn(first, "description", DescriptionKey)
         IN  IF has = "raise" \/ (has = "yes" /\ first.t # "dict")
             THEN [exc |-> TRUE, text |-> <<>>]
             ELSE IF has = "yes"
             THEN [exc |-> FALSE, text |-> first.d.description.s]
             ELSE [exc |-> FALSE, text |-> <<>>]
    ELSE [exc |-> FALSE, text |-> <<>>]

extract_text_from_field(field_data) ==
    IF IsMissing(field_data) THEN [exc |-> FALSE, text |-> <<>>]
    ELSE IF field_data.kind = "json" THEN TextOfParsed(field_data.val)
    ELSE IF field_data.kind = "literal"
    THEN LET r == TextOfParsed(field_data.val)
         IN  IF r.exc THEN [exc |-> FALSE, text |-> field_data.raw] ELSE r
    ELSE IF field_data.kind = "raw"
    THEN [exc |-> FALSE, text |-> field_data.raw]
    ELSE [exc |-> FALSE, text |-> <<>>]

(***************************************************************************)
(* process_prescriptions: one iteration of the image loop.                 *)
(***************************************************************************)
\* the literal "Not detected"
NotDetected == <<78, 111, 116, 32, 100, 101, 116, 101, 99, 116, 101, 100>>

\* a local variable that no assignment has bound yet
Unbound == [k |-> "unbound", s |-> <<>>]

\* truthiness of a value that is None or a str
Truthy(v) == v.k = "str" /\ v.s # <<>>

\* text.split('\n'): the pieces between newlines, empty ones included
RECURSIVE SplitLines(_, _)
SplitLines(s, cur) ==
    IF s = <<>> THEN <<cur>>
    ELSE IF Head(s) = 10 THEN <<cur>> \o SplitLines(Tail(s), <<>>)
    ELSE SplitLines(Tail(s), Append(cur, Head(s)))

\* ['دكتور', 'الدكتور', 'د.', 'د', 'dr', 'doctor']
Keywords ==
    << <<1583, 1603, 1578, 1608, 1585>>,
       <<1575, 1604, 1583, 1603, 1578, 1608, 1585>>,
       <<1583, 46>>,
       <<1583>>,
       <<100, 114>>,
       <<100, 111, 99, 116, 111, 114>> >>

\* the two `continue` tests of the line scan
SkipLine(line, doctor_name) ==
    \/ Truthy(doctor_name) /\ IsSubstring(doctor_name.s, line)
    \/ \E i \in 1..Len(Keywords) : IsSubstring(Keywords[i], line)

\* whether a cleaned line is sent to the matcher
LongEnough(clean_line) == Len(clean_line) > 3

\* the entry a matcher result adds to drugs, if any
KeepTop(matches) ==
    IF matches # <<>> /\ ScoreGEInt(matches[1].score, THRESHOLD)
    THEN <<matches[1]>> ELSE <<>>

\* the line scan: the queries sent to the matcher and the drugs appended
\* lines 384-393 for one line: what it adds to the scan so far
ScanLine(line, clean_line, doctor_name, drug_list, acc) ==
    IF SkipLine(line, doctor_name) \/ ~LongEnough(clean_line) THEN acc
    ELSE [queries |-> Append(acc.queries, clean_line),
          drugs |-> acc.drugs \o
                    KeepTop(get_top_matches(clean_line, drug_list, 1))]

RECURSIVE ScanLines(_, _, _, _)
ScanLines(lines, doctor_name, drug_list, acc) ==
    IF lines = <<>> THEN acc
    ELSE ScanLines(Tail(lines), doctor_name, drug_list,
                   ScanLine(Head(lines), clean_text(Head(lines)),
                            doctor_name, drug_list, acc))

LineScan(text, doctor_name, drug_list) ==
    ScanLines(SplitLines(text, <<>>), doctor_name, drug_list,
              [queries |-> <<>>, drugs |-> <<>>])

\* the comparison with >=: a tie picks the fullTextAnnotation text
WorkingTextTieFull(full_text, annotations_text) ==
    IF Len(full_text) >= Len(annotations_text) THEN full_text
    ELSE annotations_text

\* text = full_text if len(full_text) > len(annotations_text) else annotations_text
WorkingText(full_text, annotations_text) ==
    IF Len(full_text) > Len(annotations_text) THEN full_text
    ELSE annotations_text

\* no validation of the assembled list
ValidateDrugsNone(drugs) == drugs

\* lines 401-407: a list with both a score-100 and a score-<100 entry keeps
\* only its score-100 entries
ValidateDrugs(drugs) ==
    LET has_confirmed == \E i \in 1..Len(drugs) : drugs[i].score = Hundred
        has_detected == \E i \in 1..Len(drugs) : ScoreLT(drugs[i].score, Hundred)
        confirmed(drug) == drug.score = Hundred
    IN  IF has_confirmed /\ has_detected THEN SelectSeq(drugs, confirmed)
        ELSE drugs

\* the line scan without the `if not drugs:` guard
ScanNeededAlways(text, confirmed) == text # <<>>

\* line 370 and line 381: `if text:` and `if not drugs:` guard the line scan
ScanNeeded(text, confirmed) == text # <<>> /\ confirmed = <<>>

\* the spreadsheet row of an image, or no row
NoRecord == [matched |-> FALSE]

Row(id, confirmedDrugs, fullTextAnnotation, textAnnotations) ==
    [matched |-> TRUE, id |-> id, confirmedDrugs |-> confirmedDrugs,
     fullTextAnnotation |-> fullTextAnnotation,
     textAnnotations |-> textAnnotations]

\* lines 370-393: the doctor name and the line scan, once the working text
\* is known; doctor_name keeps its previous binding when the text is empty
ExtractScanned(confirmed, text, doctor, scan) ==
    [exc |-> FALSE, confirmed |-> confirmed, text |-> text,
     queries |-> scan.queries, drugs |-> confirmed \o scan.drugs,
     doctor_name |-> doctor]

ExtractWithDoctor(confirmed, text, doctor, drug_list) ==
    ExtractScanned(confirmed, text, doctor,
        IF ScanNeeded(text, confirmed) THEN LineScan(text, doctor, drug_list)
        ELSE [queries |-> <<>>, drugs |-> <<>>])

ExtractFromText(confirmed, text, doctor_prev, drug_list) ==
    ExtractWithDoctor(confirmed, text,
        IF text # <<>> THEN extract_doctor_name(text) ELSE doctor_prev,
        drug_list)

\* lines 358-368: the confirmed drugs and the two text fields; an exception
\* of extract_text_from_field leaves the iteration
ExtractFields(confirmed, full, ann, doctor_prev, drug_list) ==
    IF full.exc \/ ann.exc
    THEN [exc |-> TRUE, confirmed |-> confirmed, text |-> <<>>,
          queries |-> <<>>, drugs |-> confirmed, doctor_name |-> doctor_prev]
    ELSE ExtractFromText(confirmed, WorkingText(full.text, ann.text),
                         doctor_prev, drug_list)

\* lines 346-393: the locals of one iteration up to the end of the line scan.
\* exc: an exception left the iteration; confirmed: what
\* extract_drugs_from_confirmed returned; queries: the lines sent to the
\* matcher
ExtractRecord(record, doctor_prev, drug_list) ==
    IF ~record.matched
    THEN [exc |-> FALSE, confirmed |-> <<>>, text |-> <<>>, queries |-> <<>>,
          drugs |-> <<>>, doctor_name |-> Str(NotDetected)]
    ELSE ExtractFields(extract_drugs_from_confirmed(record.confirmedDrugs),
                       extract_text_from_field(record.fullTextAnnotation),
                       extract_text_from_field(record.textAnnotations),
                       doctor_prev, drug_list)

(***************************************************************************)
(* Program constants of the pipeline, reduced to a size a model can        *)
(* enumerate: two governorates of EGYPT_LOCATIONS with three cities.       *)
(***************************************************************************)
EGYPT_LOCATIONS ==
    << [gov |-> "Cairo", cities |-> <<"Cairo", "Maadi">>],
       [gov |-> "Giza", cities |-> <<"Giza">>] >>

\* all_cities of ensure_min_prescriptions: the (gov, city) pairs in order
RECURSIVE CitiesFrom(_)
CitiesFrom(locs) ==
    IF locs = <<>> THEN <<>>
    ELSE [i \in 1..Len(Head(locs).cities) |->
             [gov |-> Head(locs).gov, city |-> Head(locs).cities[i]]]
         \o CitiesFrom(Tail(locs))

AllCities == CitiesFrom(EGYPT_LOCATIONS)

\* f"RX{n:04d}" and an id read from the spreadsheet's id column
RX(n) == [src |-> "rx", n |-> n]

SheetId(n) == [src |-> "sheet", n |-> n]

\* the id column is missing from the row: record.get('id', default)
NoId == [src |-> "none", n |-> 0]

\* no image counts as used in a city
ImageUsedInCityNever(used, city) == FALSE

\* `city in image_to_cities[img_name]` (lines 420 and 147-148), given the
\* cities the image is used in
ImageUsedInCity(used, city) == city \in used

(***************************************************************************)
(* ensure_min_prescriptions: the set of lists it can return, over the      *)
(* outcomes of random.choice and of shutil.copy.                           *)
(* st = [records, image_to_cities, duplicate_image_skipped, copy_failed]:  *)
(* the list, the tracking dict, the local counter printed at line 199 and  *)
(* the number of rounds that shutil.copy made fail, at most                *)
(* MaxCopyFailures in one call.                                            *)
(***************************************************************************)
\* records with a valid image and a non-empty drug list; every record the
\* image loop appends has an image that was verified to exist
ValidSources(records_list) ==
    LET valid(r) == r.drugs # <<>>
    IN  SelectSeq(records_list, valid)

\* lines 118-128: the cities each image name is used in
ImageToCities(records_list, images) ==
    [img \in images |->
        {records_list[i].city : i \in {j \in 1..Len(records_list) :
                                          records_list[j].image = img}}]

\* lines 134-138: the valid records of one (gov, city) group
CountInCity(records_list, loc) ==
    Cardinality({i \in 1..Len(records_list) :
        /\ records_list[i].governorate = loc.gov
        /\ records_list[i].city = loc.city
        /\ records_list[i].drugs # <<>>})

\* the duplicate that keeps the governorate of its source
AppendDuplicateKeepGovernorate(st, source, loc) ==
    [st EXCEPT
        !.records = Append(@,
            [source EXCEPT !.prescription_id = RX(Len(st.records) + 1),
                           !.city = loc.city]),
        !.image_to_cities[source.image] = @ \cup {loc.city}]

\* the duplicate made without source.copy(): the source record itself is
\* relabelled, and appended once more
AppendDuplicateAliased(st, source, loc) ==
    [st EXCEPT
        !.records = Append(
            [i \in 1..Len(st.records) |->
                IF st.records[i] = source
                THEN [source EXCEPT
                         !.prescription_id = RX(Len(st.records) + 1),
                         !.governorate = loc.gov,
                         !.city = loc.city]
                ELSE st.records[i]],
            [source EXCEPT !.prescription_id = RX(Len(st.records) + 1),
                           !.governorate = loc.gov,
                           !.city = loc.city]),
        !.image_to_cities[source.image] = @ \cup {loc.city}]

\* lines 156-197: the duplicate of source appended for loc
AppendDuplicate(st, source, loc) ==
    [st EXCEPT
        !.records = Append(@,
            [source EXCEPT !.prescription_id = RX(Len(st.records) + 1),
                           !.governorate = loc.gov,
                           !.city = loc.city]),
        !.image_to_cities[source.image] = @ \cup {loc.city}]

\* the round skipped without counting it
SkipNoSourceUncounted(st) == st

\* lines 151-154: no source is left for this city
SkipNoSource(st) ==
    [st EXCEPT !.duplicate_image_skipped = @ + 1]

\* lines 175-178 and 182-185: the copy of the image failed
SkipCopyFailed(st) ==
    [st EXCEPT !.duplicate_image_skipped = @ + 1, !.copy_failed = @ + 1]

\* the copies of one call that shutil.copy may make fail
MaxCopyFailures == 1

\* the outcomes of one round whose copy fails, if one more copy may fail
RECURSIVE EnsureRounds(_, _, _, _)
CopyFails(st, sources, loc, needed) ==
    IF st.copy_failed < MaxCopyFailures
    THEN EnsureRounds(SkipCopyFailed(st), sources, loc, needed - 1)
    ELSE {}

\* lines 143-197: `needed` rounds for one city
EnsureRounds(st, sources, loc, needed) ==
    IF needed = 0 THEN {st}
    ELSE LET free(src) ==
                 ~ImageUsedInCity(st.image_to_cities[src.image], loc.city)
             valid_sources == SelectSeq(sources, free)
         IN  IF valid_sources = <<>>
             THEN EnsureRounds(SkipNoSource(st), sources, loc, needed - 1)
             ELSE CopyFails(st, sources, loc, needed) \cup
                  UNION {
                    EnsureRounds(AppendDuplicate(st, valid_sources[k], loc),
                                 sources, loc, needed - 1)
                    : k \in 1..Len(valid_sources)}

\* lines 132-197: the loop over all_cities
RECURSIVE EnsureCities(_, _, _, _)
EnsureCities(sts, sources, cities, min_per_city) ==
    IF cities = <<>> THEN sts
    ELSE EnsureCities(
            UNION {LET current == CountInCity(st.records, Head(cities))
                   IN  IF current < min_per_city
                       THEN EnsureRounds(st, sources, Head(cities),
                                         min_per_city - current)
                       ELSE {st}
                   : st \in sts},
            sources, Tail(cities), min_per_city)

\* the state of ensure_min_prescriptions before its loop (lines 101-130)
EnsureStart(records_list, images) ==
    [records |-> records_list,
     image_to_cities |-> ImageToCities(records_list, images),
     duplicate_image_skipped |-> 0,
     copy_failed |-> 0]

\* the states one call can end in
EnsureRuns(records_list, min_per_city, images) ==
    IF ValidSources(records_list) = <<>>
    THEN {EnsureStart(records_list, images)}
    ELSE EnsureCities({EnsureStart(records_list, images)},
                      ValidSources(records_list), AllCities, min_per_city)

ensure_min_prescriptions(records_list, min_per_city, images) ==
    {st.records : st \in EnsureRuns(records_list, min_per_city, images)}

(***************************************************************************)
(* Inputs.                                                                 *)
(***************************************************************************)
MaxImages == 2

\* min_per_city, reduced from the 5 that process_prescriptions passes
MinPerCity == 2

\* the drug database the pipeline loads: "Abba", "baab"
LoadedCatalog == << <<65, 98, 98, 97>>, <<98, 97, 97, 98>> >>

\* "abba\nbaaab": an exact line and a misspelled line
TextMixed == <<97, 98, 98, 97, 10, 98, 97, 97, 97, 98>>

\* "baaab"
TextFuzzy == <<98, 97, 97, 97, 98>>

\* "Dr. Zed\nabba"
TextDoctor == <<68, 114, 46, 32, 90, 101, 100, 10, 97, 98, 98, 97>>

\* "zzzz"
TextNoDrug == <<122, 122, 122, 122>>

\* "yyyy"
TextNoDrugToo == <<121, 121, 121, 121>>

\* "Dr. Zed\nDR abba": a doctor line, then a line with an upper-case label
TextDrCaps ==
    <<68, 114, 46, 32, 90, 101, 100, 10, 68, 82, 32, 97, 98, 98, 97>>

\* the spreadsheet, keyed by image name (image_to_record); an image absent
\* from the sheet maps to NoRecord
image_to_record ==
    [mixed |->
        Row(SheetId(1), CellNaN,
            CellJson(VDict([text |-> VStr(TextMixed)])), CellNaN),
     confdoc |->
        Row(SheetId(2),
            CellJson(VList(<<VDict([name |-> VStr(<<65, 98>>)]),
                             VDict([dose |-> VInt])>>)),
            CellJson(VDict([text |-> VStr(TextDoctor)])), CellNaN),
     confonly |->
        Row(SheetId(3),
            CellLiteral(VList(<<VDict([name |-> VStr(<<98, 97>>)])>>),
                        <<91, 93>>),
            CellNaN, CellNum),
     fuzzy |->
        Row(SheetId(4), CellRaw(<<91, 123, 110, 97, 109, 101>>),
            CellRaw(TextFuzzy),
            CellJson(VList(<<VDict([description |-> VStr(<<98, 97>>)])>>))),
     badlist |->
        Row(SheetId(5), CellNaN, CellNaN, CellJson(VList(<<VInt>>))),
     nodrug |->
        Row(SheetId(6), CellJson(VList(<<VInt>>)),
            CellJson(VDict([text |-> VStr(TextNoDrug)])),
            CellJson(VList(<<VDict([description |-> VStr(TextNoDrugToo)])>>))),
     doctor |->
        Row(SheetId(7), CellNaN, CellRaw(<<68, 114>>),
            CellLiteral(VList(<<VDict([description |-> VStr(TextDrCaps)])>>),
                        <<91, 93>>)),
     rawonly |->
        Row(SheetId(8), CellRaw(<<97, 98, 98, 97>>), CellNaN, CellNaN),
     unmatched |-> NoRecord]

ImageNames == DOMAIN image_to_record

Batches == UNION {[1..k -> ImageNames] : k \in 0..MaxImages}

\* space, 'A', 'a', 'b'
QueryAlphabet == {32, 65, 97, 98}

Queries == SeqsUpTo(QueryAlphabet, MaxQueryLen)

\* "Ab", "abb", "b a", "ba", "bbbb"
DrugNames == {<<65, 98>>, <<97, 98, 98>>, <<98, 32, 97>>, <<98, 97>>,
              <<98, 98, 98, 98>>}

Catalogs == {c \in SeqsUpTo(DrugNames, MaxCatalog) : NoDup(c)}

(***************************************************************************)
(* State.                                                                  *)
(***************************************************************************)
VARIABLES
    pc,                 \* "load", "loop", "done" (process_prescriptions),
                        \* "call", "returned" (a get_top_matches call)
    drug_list,          \* MedicineMatcher.drug_list
    image_paths,        \* the image names found in the source directory
    idx,                \* position of the image loop
    processed_data,     \* the records accumulated so far
    doctor_name,        \* the local doctor_name, bound or not
    image_to_cities,    \* the cities each image was assigned to
    no_drugs_skipped,
    duplicate_image_skipped,
    unmatched_images,
    last,               \* the locals of the latest iteration
    result,             \* the rows of the returned DataFrame
    failed,             \* the except clause of process_prescriptions ran
    query, topN,        \* arguments of the get_top_matches call
    matches,            \* its return value
    extract_called,     \* whether it called process.extract
    results,            \* its local `results`
    raw_text,           \* argument of a clean_text or extract_doctor_name call
    cleaned,            \* clean_text(raw_text)
    recleaned,          \* clean_text(cleaned)
    detected_name,      \* extract_doctor_name(raw_text)
    confirmed_cell,     \* argument of an extract_drugs_from_confirmed call
    confirmed_list,     \* its return value
    scan_drugs,         \* what the line scan appends for one matcher result
    ensured             \* the counters of the ensure_min_prescriptions call

pvars == <<image_paths, idx, processed_data, doctor_name, image_to_cities,
           no_drugs_skipped, duplicate_image_skipped, unmatched_images,
           last, result, failed, ensured>>

mvars == <<query, topN, matches, extract_called, results>>

fvars == <<raw_text, cleaned, recleaned, detected_name, confirmed_cell,
           confirmed_list, scan_drugs>>

vars == <<pc, drug_list, pvars, mvars, fvars>>

NoIteration ==
    [image |-> "", outcome |-> "none", confirmed |-> <<>>, text |-> <<>>,
     queries |-> <<>>, assembled |-> <<>>, drugs |-> <<>>]

PipelineIdle ==
    /\ idx = 1
    /\ processed_data = <<>>
    /\ doctor_name = Unbound
    /\ image_to_cities = [img \in ImageNames |-> {}]
    /\ no_drugs_skipped = 0
    /\ duplicate_image_skipped = 0
    /\ unmatched_images = 0
    /\ last = NoIteration
    /\ result = <<>>
    /\ failed = FALSE
    /\ ensured = [duplicate_image_skipped |-> 0, copy_failed |-> 0]

MatcherIdle ==
    /\ matches = <<>>
    /\ extract_called = FALSE
    /\ results = <<>>

FunctionsIdle ==
    /\ cleaned = <<>>
    /\ recleaned = <<>>
    /\ detected_name = None
    /\ confirmed_list = <<>>
    /\ scan_drugs = <<>>

(***************************************************************************)
(* The pipeline: process_prescriptions.                                    *)
(***************************************************************************)
Init ==
    /\ pc = "load"
    /\ drug_list = <<>>
    /\ image_paths \in Batches
    /\ PipelineIdle
    /\ query = <<>>
    /\ topN = 1
    /\ MatcherIdle
    /\ raw_text = <<>>
    /\ confirmed_cell = CellNaN
    /\ FunctionsIdle

\* lines 297-339: load the spreadsheets; a failure is caught by the except
\* clause at line 503, which returns an empty DataFrame
Load ==
    /\ pc = "load"
    /\ \E ok \in BOOLEAN :
          IF ok
          THEN /\ pc' = "loop"
               /\ drug_list' = LoadedCatalog
               /\ UNCHANGED failed
          ELSE /\ pc' = "done"
               /\ failed' = TRUE
               /\ UNCHANGED drug_list
    /\ UNCHANGED <<image_paths, idx, processed_data, doctor_name,
                   image_to_cities, no_drugs_skipped, duplicate_image_skipped,
                   unmatched_images, last, result, ensured, mvars, fvars>>

\* record.get('id', f"RX{len(processed_data) + 1:04d}")
PrescriptionId(record, n) ==
    IF record.matched /\ record.id # NoId THEN record.id ELSE RX(n + 1)

\* no record is skipped for having no drugs
SkipNoDrugsNever(drugs) == FALSE

\* lines 395-399 and 409-413: the record is skipped for having no drugs
SkipNoDrugs(drugs) == drugs = <<>>

\* the record appended at lines 460-469 (pharmacy and timestamp, two more
\* random draws that nothing reads, are left out)
NewRecord(record, image_name, loc, drugs, doctor, n) ==
    [prescription_id |-> PrescriptionId(record, n),
     governorate |-> loc.gov,
     city |-> loc.city,
     drugs |-> drugs,
     doctor_name |-> IF Truthy(doctor) THEN doctor.s ELSE NotDetected,
     image |-> image_name]

\* lines 395-473: how an iteration ends, given the extracted locals, the
\* location random.choice picked and whether shutil.copy succeeded
Outcome(ex, drugs, loc, used, copy_ok) ==
    IF ex.exc THEN "exception"
    ELSE IF SkipNoDrugs(ex.drugs) \/ SkipNoDrugs(drugs) THEN "no_drugs"
    ELSE IF ImageUsedInCity(used, loc.city) THEN "duplicate"
    ELSE IF ~copy_ok THEN "copy_failed"
    ELSE IF ex.doctor_name = Unbound THEN "exception"
    ELSE "appended"

\* lines 342-473: one iteration of the image loop
ProcessImage ==
    /\ pc = "loop"
    /\ idx <= Len(image_paths)
    /\ \E c \in 1..Len(AllCities), copy_ok \in BOOLEAN :
       \E image_name \in {image_paths[idx]} :
       \E record \in {image_to_record[image_name]} :
       \E ex \in {ExtractRecord(record, doctor_name, drug_list)} :
       \E drugs \in {ValidateDrugs(ex.drugs)} :
       \E loc \in {AllCities[c]} :
       \E outcome \in {Outcome(ex, drugs, loc, image_to_cities[image_name],
                               copy_ok)} :
          /\ last' = [image |-> image_name, outcome |-> outcome,
                      confirmed |-> ex.confirmed, text |-> ex.text,
                      queries |-> ex.queries, assembled |-> ex.drugs,
                      drugs |-> drugs]
          /\ pc' = IF outcome = "exception" THEN "done" ELSE pc
          /\ failed' = (outcome = "exception")
          /\ idx' = IF outcome = "exception" THEN idx ELSE idx + 1
          /\ doctor_name' = ex.doctor_name
          /\ unmatched_images' =
                IF record.matched THEN unmatched_images
                ELSE unmatched_images + 1
          /\ no_drugs_skipped' =
                IF outcome = "no_drugs" THEN no_drugs_skipped + 1
                ELSE no_drugs_skipped
          /\ duplicate_image_skipped' =
                IF outcome \in {"duplicate", "copy_failed"}
                THEN duplicate_image_skipped + 1
                ELSE duplicate_image_skipped
          /\ image_to_cities' =
                IF ex.exc \/ outcome \in {"no_drugs", "duplicate"}
                THEN image_to_cities
                ELSE [image_to_cities EXCEPT
                         ![image_name] = @ \cup {loc.city}]
          /\ processed_data' =
                IF outcome = "appended"
                THEN Append(processed_data,
                            NewRecord(record, image_name, loc, drugs,
                                      ex.doctor_name, Len(processed_data)))
                ELSE processed_data
    /\ UNCHANGED <<drug_list, image_paths, result, ensured, mvars, fvars>>

\* lines 475-501: after the loop, ensure_min_prescriptions extends the list
\* and the DataFrame built from it is returned
Finish ==
    /\ pc = "loop"
    /\ idx > Len(image_paths)
    /\ \E st \in EnsureRuns(processed_data, MinPerCity, ImageNames) :
          /\ processed_data' = st.records
          /\ result' = st.records
          /\ ensured' = [duplicate_image_skipped |-> st.duplicate_image_skipped,
                         copy_failed |-> st.copy_failed]
    /\ pc' = "done"
    /\ UNCHANGED <<drug_list, image_paths, idx, doctor_name, image_to_cities,
                   no_drugs_skipped, duplicate_image_skipped, unmatched_images,
                   last, failed, mvars, fvars>>

Next == Load \/ ProcessImage \/ Finish

Spec == Init /\ [][Next]_vars

(***************************************************************************)
(* The matcher alone: one call of get_top_matches on any query, catalog    *)
(* and limit, and what the line scan keeps of a call with limit 1.         *)
(***************************************************************************)
MatcherInit ==
    /\ pc = "call"
    /\ drug_list \in Catalogs
    /\ query \in Queries
    /\ topN \in 1..MaxTopN
    /\ MatcherIdle
    /\ image_paths = <<>>
    /\ PipelineIdle
    /\ raw_text = <<>>
    /\ confirmed_cell = CellNaN
    /\ FunctionsIdle

\* matcher.get_top_matches(query, topN)
CallGetTopMatches ==
    /\ pc = "call"
    /\ \E run \in {MatchRun(query, drug_list, topN)} :
          /\ matches' = run.ret
          /\ extract_called' = run.extract_called
          /\ results' = run.results
    /\ pc' = "returned"
    /\ UNCHANGED <<drug_list, query, topN, pvars, fvars>>

\* lines 391-392, after matcher.get_top_matches(clean_line, topN=1):
\* drugs.append(matches[0]) if matches and matches[0]['score'] >= THRESHOLD
AppendTopMatch ==
    /\ pc = "returned"
    /\ topN = 1
    /\ scan_drugs' = KeepTop(matches)
    /\ pc' = "scanned"
    /\ UNCHANGED <<drug_list, pvars, mvars, raw_text, cleaned, recleaned,
                   detected_name, confirmed_cell, confirmed_list>>

MatcherNext == CallGetTopMatches \/ AppendTopMatch

MatcherSpec == MatcherInit /\ [][MatcherNext]_vars

(***************************************************************************)
(* clean_text alone: applied to any short text, then to its own result.    *)
(***************************************************************************)
MaxTextLen == 3

\* space, '-', 'I', 'e', U+0130, U+0307, alef, madda above
CleanAlphabet == {32, 45, 73, 101, 304, 775, 1575, 1619}

CleanInit ==
    /\ pc = "clean"
    /\ raw_text \in SeqsUpTo(CleanAlphabet, MaxTextLen)
    /\ confirmed_cell = CellNaN
    /\ FunctionsIdle
    /\ drug_list = <<>>
    /\ image_paths = <<>>
    /\ PipelineIdle
    /\ query = <<>>
    /\ topN = 1
    /\ MatcherIdle

\* clean_line = MedicineMatcher.clean_text(line)
CallCleanText ==
    /\ pc = "clean"
    /\ cleaned' = clean_text(raw_text)
    /\ pc' = "cleaned"
    /\ UNCHANGED <<drug_list, pvars, mvars, raw_text, recleaned,
                   detected_name, confirmed_cell, confirmed_list, scan_drugs>>

\* clean_text applied to a string that clean_text returned
CallCleanTextAgain ==
    /\ pc = "cleaned"
    /\ recleaned' = clean_text(cleaned)
    /\ pc' = "recleaned"
    /\ UNCHANGED <<drug_list, pvars, mvars, raw_text, cleaned,
                   detected_name, confirmed_cell, confirmed_list, scan_drugs>>

CleanNext == CallCleanText \/ CallCleanTextAgain

CleanSpec == CleanInit /\ [][CleanNext]_vars

(***************************************************************************)
(* extract_doctor_name alone: applied to any short text and to a few       *)
(* longer ones.                                                            *)
(***************************************************************************)
MaxDoctorLen == 4

\* newline, space, '.', 'D', 'a', 'r', dal
DoctorAlphabet == {10, 32, 46, 68, 97, 114, 1583}

\* "Dr A\nدكتور ب,", "الدكتور", "DOCTOR Zed.", "doctor\n\nد. ا ب"
DoctorSamples ==
    { <<68, 114, 32, 65, 10, 1583, 1603, 1578, 1608, 1585, 32, 1576, 44>>,
      <<1575, 1604, 1583, 1603, 1578, 1608, 1585>>,
      <<68, 79, 67, 84, 79, 82, 32, 90, 101, 100, 46>>,
      <<100, 111, 99, 116, 111, 114, 10, 10, 1583, 46, 32, 1575, 32, 1576>> }

DoctorInit ==
    /\ pc = "doctor"
    /\ raw_text \in SeqsUpTo(DoctorAlphabet, MaxDoctorLen) \cup DoctorSamples
    /\ confirmed_cell = CellNaN
    /\ FunctionsIdle
    /\ drug_list = <<>>
    /\ image_paths = <<>>
    /\ PipelineIdle
    /\ query = <<>>
    /\ topN = 1
    /\ MatcherIdle

\* doctor_name = extract_doctor_name(text)
CallExtractDoctorName ==
    /\ pc = "doctor"
    /\ detected_name' = extract_doctor_name(raw_text)
    /\ pc' = "named"
    /\ UNCHANGED <<drug_list, pvars, mvars, raw_text, cleaned, recleaned,
                   confirmed_cell, confirmed_list, scan_drugs>>

DoctorNext == CallExtractDoctorName

DoctorSpec == DoctorInit /\ [][DoctorNext]_vars

(***************************************************************************)
(* extract_drugs_from_confirmed alone: applied to any cell that holds a    *)
(* short list, and to cells that hold no list.                             *)
(***************************************************************************)
MaxItems == 2

\* entries of a decoded list: {"name": "Ab"}, {"name": "ba", "dose": 1},
\* {"dose": 1}, 1, "name", "xy"
ConfirmedItems ==
    { VDict([name |-> VStr(<<65, 98>>)]),
      VDict([name |-> VStr(<<98, 97>>), dose |-> VInt]),
      VDict([dose |-> VInt]),
      VInt,
      VStr(NameKey),
      VStr(<<120, 121>>) }

ConfirmedLists == {VList(items) : items \in SeqsUpTo(ConfirmedItems, MaxItems)}

\* the confirmedDrugs cells: lists in JSON and in Python-literal syntax, a
\* JSON dict, a JSON string, a JSON number, an undecodable string, a number
\* and an empty cell
ConfirmedCells ==
    {CellJson(v) : v \in ConfirmedLists}
    \cup {CellLiteral(v, <<91, 93>>) : v \in ConfirmedLists}
    \cup { CellJson(VDict([name |-> VStr(<<65, 98>>)])),
           CellJson(VStr(<<65, 98>>)),
           CellJson(VInt),
           CellRaw(<<65, 98>>),
           CellNum,
           CellNaN }

ConfirmedInit ==
    /\ pc = "confirmed"
    /\ confirmed_cell \in ConfirmedCells
    /\ raw_text = <<>>
    /\ FunctionsIdle
    /\ drug_list = <<>>
    /\ image_paths = <<>>
    /\ PipelineIdle
    /\ query = <<>>
    /\ topN = 1
    /\ MatcherIdle

\* drugs = extract_drugs_from_confirmed(confirmed_drugs)
CallExtractDrugsFromConfirmed ==
    /\ pc = "confirmed"
    /\ confirmed_list' = extract_drugs_from_confirmed(confirmed_cell)
    /\ pc' = "extracted"
    /\ UNCHANGED <<drug_list, pvars, mvars, raw_text, cleaned, recleaned,
                   detected_name, confirmed_cell, scan_drugs>>

ConfirmedNext == CallExtractDrugsFromConfirmed

ConfirmedSpec == ConfirmedInit /\ [][ConfirmedNext]_vars

(***************************************************************************)
(* Properties.                                                             *)
(***************************************************************************)
\* the catalog entries that contain the query, case-insensitively
Contains(i) == IsSubstring(Lower(query), Lower(drug_list[i]))

Is100(drug) == drug.score = Hundred

Below100(drug) == ScoreLT(drug.score, Hundred)

\* a drug list with a score-100 entry and a score-<100 entry
Mixed(drugs) ==
    /\ \E i \in 1..Len(drugs) : Is100(drugs[i])
    /\ \E i \in 1..Len(drugs) : Below100(drugs[i])

\* the row of the latest iteration
LastRow == image_to_record[last.image]

Iterated == last.outcome # "none"

\* C1: the list get_top_matches returns is sorted by non-increasing score
\* and has at most topN entries, on the exact and on the approximate path.
C1_SortedAndBounded ==
    pc = "returned" =>
        /\ Len(matches) <= topN
        /\ \A i \in 1..(Len(matches) - 1) :
              ScoreGE(matches[i].score, matches[i + 1].score)

\* the approximate path returned two candidates with different scores
C1_Witness ==
    /\ pc = "returned"
    /\ extract_called
    /\ Len(matches) = 2
    /\ ScoreLT(matches[2].score, matches[1].score)

\* C2 as stated: every catalog entry that contains the query is returned
\* with score 100.0, and process.extract is not called.
C2_Original ==
    pc = "returned" =>
        \A i \in 1..Len(drug_list) :
            Contains(i) =>
                /\ ~extract_called
                /\ \E k \in 1..Len(matches) :
                      matches[k] = [name |-> drug_list[i], score |-> Hundred]

\* C2 amended: when some catalog entry contains the query, process.extract
\* is not called, every returned entry has score 100.0, and an entry that
\* contains the query is returned when fewer than topN earlier catalog
\* entries contain it.
C2_ExactShortcut ==
    pc = "returned" =>
        \A i \in 1..Len(drug_list) :
            Contains(i) =>
                /\ ~extract_called
                /\ \A k \in 1..Len(matches) : Is100(matches[k])
                /\ Cardinality({j \in 1..(i - 1) : Contains(j)}) < topN =>
                      \E k \in 1..Len(matches) :
                          matches[k] = [name |-> drug_list[i],
                                        score |-> Hundred]

\* an upper-case catalog entry contains the lower-case query and is returned,
\* while a later containing entry is cut off by topN
C2_Witness ==
    /\ pc = "returned"
    /\ ~extract_called
    /\ Len(matches) = topN
    /\ \E i, j \in 1..Len(drug_list) :
          /\ i < j /\ Contains(i) /\ Contains(j)
          /\ ~IsSubstring(query, drug_list[i])
          /\ matches[1].name = drug_list[i]
          /\ \A k \in 1..Len(matches) : matches[k].name # drug_list[j]

\* C3: a query that no catalog entry contains and that no catalog entry
\* matches with token-sort similarity >= 50 yields the empty list.
C3_EmptyBelowThreshold ==
    pc = "returned" =>
        ((\A i \in 1..Len(drug_list) :
              /\ ~Contains(i)
              /\ ~ScoreGEInt(token_sort_ratio(query, drug_list[i]), THRESHOLD))
         => matches = <<>>)

\* process.extract scored candidates, all below the threshold but not all 0
C3_Witness ==
    /\ pc = "returned"
    /\ extract_called
    /\ matches = <<>>
    /\ \E i \in 1..Len(results) : results[i].score # <<0, 1>>

\* C4: every emitted record has a drug list whose entries all have score 100
\* or all have a score below 100; a mixed assembled list keeps exactly its
\* score-100 entries, in order.
C4_NoMixedLists ==
    /\ \A i \in 1..Len(processed_data) : ~Mixed(processed_data[i].drugs)
    /\ \A i \in 1..Len(result) : ~Mixed(result[i].drugs)
    /\ Mixed(last.assembled) => last.drugs = SelectSeq(last.assembled, Is100)

\* a record whose line scan assembled a mixed list was appended
C4_Witness ==
    /\ last.outcome = "appended"
    /\ Mixed(last.assembled)
    /\ Len(last.drugs) < Len(last.assembled)
    /\ processed_data[Len(processed_data)].drugs = last.drugs

\* C5: when the confirmed-drug field yields a non-empty list, the record's
\* drugs are exactly those entries, each with score 100.0, and no line is
\* sent to the matcher, whatever the text holds.
C5_ConfirmedSkipsScan ==
    (Iterated /\ last.confirmed # <<>>) =>
        /\ last.drugs = last.confirmed
        /\ \A i \in 1..Len(last.drugs) : Is100(last.drugs[i])
        /\ last.queries = <<>>
        /\ \A i \in 1..Len(result) :
              result[i].image = last.image => result[i].drugs = last.confirmed
        /\ \A i \in 1..Len(processed_data) :
              processed_data[i].image = last.image =>
                  processed_data[i].drugs = last.confirmed

\* a record with confirmed drugs and a text with a scannable drug line was
\* appended
C5_Witness ==
    /\ last.outcome = "appended"
    /\ last.confirmed # <<>>
    /\ LineScan(last.text, None, drug_list).drugs # <<>>

\* C6 as stated: an exception raised while processing one record is
\* confined to it; the records accumulated before it are still returned and
\* the images after it are still processed.
C6_ExceptionConfined ==
    last.outcome = "exception" =>
        /\ \A i \in 1..Len(processed_data) :
              \E k \in 1..Len(result) : result[k] = processed_data[i]
        /\ pc = "done" => idx >= Len(image_paths)

\* the doctor name a record yields on its own: that of its own text, or
\* "Not detected"
OwnDoctorName(record) ==
    LET full == extract_text_from_field(record.fullTextAnnotation)
        ann == extract_text_from_field(record.textAnnotations)
        name == extract_doctor_name(WorkingText(full.text, ann.text))
    IN  IF Truthy(name) THEN name.s ELSE NotDetected

\* C7 as stated: the doctor_name of every emitted record depends only on
\* that record's own fields.
C7_DoctorNameOwn ==
    \A i \in 1..Len(processed_data) :
        processed_data[i].doctor_name =
            OwnDoctorName(image_to_record[processed_data[i].image])

\* a line of the text that the line scan does not skip and that is long
\* enough to be sent to the matcher
HasScannableLine(text, doctor) ==
    \E i \in 1..Len(SplitLines(text, <<>>)) :
        LET line == SplitLines(text, <<>>)[i]
        IN  ~SkipLine(line, doctor) /\ LongEnough(clean_text(line))

\* C8: a confirmed-drug field that is neither JSON nor a Python literal
\* yields no confirmed drugs and no exception; the record goes on to text
\* extraction and its lines are scanned.
C8_MalformedConfirmed ==
    (Iterated /\ LastRow.matched /\ LastRow.confirmedDrugs.kind = "raw") =>
        /\ last.confirmed = <<>>
        /\ last.outcome # "exception"
        /\ last.text = WorkingText(
               extract_text_from_field(LastRow.fullTextAnnotation).text,
               extract_text_from_field(LastRow.textAnnotations).text)
        /\ HasScannableLine(last.text, extract_doctor_name(last.text)) =>
              last.queries # <<>>

\* a record with a malformed confirmed field had its text scanned and a
\* drug detected
C8_Witness ==
    /\ last.outcome = "appended"
    /\ LastRow.confirmedDrugs.kind = "raw"
    /\ last.queries # <<>>
    /\ last.drugs # <<>>

\* C9 as stated: an entry has score 100 only if it came from the confirmed
\* field; every entry the line scan produced has a score below 100.
C9_HundredIffConfirmed ==
    (Iterated /\ last.confirmed = <<>>) =>
        \A i \in 1..Len(last.assembled) : Below100(last.assembled[i])

\* C10 as stated: a record that ends with zero drugs is still reported in
\* the output, with an empty drug list.
C10_Original ==
    last.outcome = "no_drugs" =>
        \E i \in 1..Len(processed_data) :
            /\ processed_data[i].image = last.image
            /\ processed_data[i].drugs = <<>>

\* C10 amended: a record that ends with zero drugs is skipped, counted in
\* no_drugs_skipped, and the loop goes on; no record of the output has an
\* empty drug list.
C10_ZeroDrugsSkipped ==
    /\ \A i \in 1..Len(processed_data) : processed_data[i].drugs # <<>>
    /\ \A i \in 1..Len(result) : result[i].drugs # <<>>
    /\ last.outcome = "no_drugs" => last.drugs = <<>> /\ ~failed
    /\ pc = "loop" =>
          idx - 1 = Len(processed_data) + no_drugs_skipped
                    + duplicate_image_skipped

\* a matched record whose text holds no drug was skipped
C10_Witness ==
    /\ last.outcome = "no_drugs"
    /\ LastRow.matched
    /\ last.text # <<>>
    /\ no_drugs_skipped > 0

\* the skip rule with the English keywords matched case-insensitively
StatedSkipLine(line, doctor) ==
    \/ Truthy(doctor) /\ IsSubstring(doctor.s, line)
    \/ \E i \in 1..4 : IsSubstring(Keywords[i], line)
    \/ \E i \in 5..6 : IsSubstring(Keywords[i], Lower(line))

\* the lines that rule sends to the matcher, normalised, in order
RECURSIVE StatedQueries(_, _)
StatedQueries(lines, doctor) ==
    IF lines = <<>> THEN <<>>
    ELSE (IF ~StatedSkipLine(Head(lines), doctor)
             /\ LongEnough(clean_text(Head(lines)))
          THEN <<clean_text(Head(lines))>> ELSE <<>>)
         \o StatedQueries(Tail(lines), doctor)

\* the latest iteration ran the line scan
Scanned == Iterated /\ last.confirmed = <<>> /\ last.text # <<>>

\* C11 as stated: the line scan skips exactly the lines that contain the
\* detected doctor name or a doctor keyword, the English keywords matched
\* case-insensitively, and sends every other line whose normalised form is
\* longer than 3 characters to the matcher.
C11_SkipRuleCaseInsensitive ==
    Scanned =>
        last.queries = StatedQueries(SplitLines(last.text, <<>>), doctor_name)

\* every result of clean_text is lower-cased, trimmed and without a run of
\* two whitespace characters
CleanShape ==
    pc \in {"cleaned", "recleaned"} =>
        /\ Lower(cleaned) = cleaned
        /\ Strip(cleaned) = cleaned
        /\ \A i \in 1..(Len(cleaned) - 1) :
              ~(IsSpace(cleaned[i]) /\ IsSpace(cleaned[i + 1]))

\* C12 as stated: clean_text is idempotent, and its result is lower-cased,
\* trimmed and without a run of two whitespace characters.
C12_Idempotent ==
    /\ pc = "recleaned" => recleaned = cleaned
    /\ CleanShape

\* some marker of the list occurs in t at position i
MarkerOccurs(t, i, markers, ci) ==
    \E a \in 1..Len(markers) : MarkerAt(t, i, markers[a], ci)

\* an Arabic marker occurs in t and is followed by a non-newline character
ArabicFollowed(t) ==
    \E i \in 1..Len(t), a \in 1..Len(ArabicMarkers) :
        /\ MarkerAt(t, i, ArabicMarkers[a], FALSE)
        /\ i + Len(ArabicMarkers[a]) <= Len(t)
        /\ t[i + Len(ArabicMarkers[a])] # 10

\* some pattern of the list can match t: a marker, then whitespace, then a
\* character that is not a newline
Matchable(t, markers, ci) ==
    \E i \in 1..Len(t), a \in 1..Len(markers) :
        /\ MarkerAt(t, i, markers[a], ci)
        /\ \E q \in (i + Len(markers[a]))..Len(t) :
              /\ t[q] # 10
              /\ \A k \in (i + Len(markers[a]))..(q - 1) : IsSpace(t[k])

\* C13: extract_doctor_name tries the Arabic patterns first: when the text
\* holds an Arabic marker followed by a non-newline character, the name is
\* the one the Arabic patterns capture, wherever the English markers are;
\* the result is None exactly when no Arabic and no English pattern matches.
C13_ArabicFirst ==
    pc = "named" =>
        /\ ArabicFollowed(NFC(raw_text)) =>
              /\ detected_name # None
              /\ detected_name =
                    PatternName(NFC(raw_text), ArabicMarkers, FALSE, TRUE)
        /\ detected_name = None <=>
              /\ ~Matchable(NFC(raw_text), ArabicMarkers, FALSE)
              /\ ~Matchable(NFC(raw_text), EnglishMarkers, TRUE)

\* an English marker stands before the first Arabic marker, and the name
\* returned is not the one the English patterns capture
C13_Witness ==
    /\ pc = "named"
    /\ ArabicFollowed(NFC(raw_text))
    /\ \E i \in 1..Len(raw_text) :
          /\ MarkerOccurs(NFC(raw_text), i, EnglishMarkers, TRUE)
          /\ \A j \in 1..i : ~MarkerOccurs(NFC(raw_text), j, ArabicMarkers, FALSE)
    /\ PatternName(NFC(raw_text), EnglishMarkers, TRUE, FALSE) # None
    /\ detected_name # PatternName(NFC(raw_text), EnglishMarkers, TRUE, FALSE)

\* the entries of a decoded list that are dicts with a 'name' key, each as a
\* candidate with score 100.0, in input order
NamedEntries(items) ==
    LET named(item) == item.t = "dict" /\ HasKey(item, "name")
        kept == SelectSeq(items, named)
    IN  [i \in 1..Len(kept) |-> [name |-> kept[i].d.name.s, score |-> Hundred]]

\* the cell decodes, as JSON or as a Python literal, to a list
DecodesToList(cell) ==
    cell.kind \in {"json", "literal"} /\ cell.val.t = "list"

\* C18 as stated: a confirmed-drug field that decodes to a list yields one
\* candidate with score 100.0 for every entry that has a 'name' key, in
\* input order, and nothing for the other entries; a field that decodes to
\* something else yields the empty list.
C18_Original ==
    pc = "extracted" =>
        confirmed_list =
            IF DecodesToList(confirmed_cell)
            THEN NamedEntries(confirmed_cell.val.items)
            ELSE <<>>

\* the entry makes `'name' in item` raise (a number) or is a string that
\* contains 'name', on which item.get raises
BadEntry(item) ==
    \/ item.t = "int"
    \/ item.t = "str" /\ IsSubstring(NameKey, item.s)

\* C18 amended: a field that decodes to a list without such an entry yields
\* one candidate with score 100.0 for every dict entry that has a 'name'
\* key, in input order, and nothing for the other entries; a list with such
\* an entry, and a field that decodes to no list, yield the empty list.
C18_NamedEntriesOrEmpty ==
    pc = "extracted" =>
        confirmed_list =
            IF DecodesToList(confirmed_cell)
               /\ \A i \in 1..Len(confirmed_cell.val.items) :
                     ~BadEntry(confirmed_cell.val.items[i])
            THEN NamedEntries(confirmed_cell.val.items)
            ELSE <<>>

\* a Python-literal list of a named entry and an entry without a name
\* yielded the one candidate
C18_Witness ==
    /\ pc = "extracted"
    /\ confirmed_cell.kind = "literal"
    /\ DecodesToList(confirmed_cell)
    /\ Len(confirmed_cell.val.items) = 2
    /\ Len(confirmed_list) = 1
    /\ confirmed_list[1].score = Hundred

\* C19: every candidate get_top_matches returns is a catalog entry with a
\* score between 50 and 100; what the line scan appends for a line is
\* nothing or the first returned candidate, whose score is at least 50 and
\* at least the token-sort similarity of every catalog entry.
C19_CatalogEntriesAboveThreshold ==
    /\ pc \in {"returned", "scanned"} =>
          \A k \in 1..Len(matches) :
              /\ \E i \in 1..Len(drug_list) : drug_list[i] = matches[k].name
              /\ ScoreGEInt(matches[k].score, 50)
              /\ ScoreGE(Hundred, matches[k].score)
    /\ pc = "scanned" =>
          /\ Len(scan_drugs) <= 1
          /\ scan_drugs = <<>> <=> matches = <<>>
          /\ \A k \in 1..Len(scan_drugs) :
                /\ scan_drugs[k] = matches[1]
                /\ ScoreGEInt(scan_drugs[k].score, 50)
                /\ \A i \in 1..Len(drug_list) :
                      ScoreGE(scan_drugs[k].score,
                              token_sort_ratio(query, drug_list[i]))

\* the approximate path ranked the second catalog entry first, with a score
\* below 100, and the line scan appended it
C19_Witness ==
    /\ pc = "scanned"
    /\ extract_called
    /\ Len(drug_list) = 2
    /\ scan_drugs # <<>>
    /\ scan_drugs[1].name = drug_list[2]
    /\ Below100(scan_drugs[1])
    /\ token_sort_ratio(query, drug_list[1]) # <<0, 1>>

\* what extract_text_from_field returns for the two text fields of a row
FullText(record) == extract_text_from_field(record.fullTextAnnotation)

AnnText(record) == extract_text_from_field(record.textAnnotations)

\* the latest iteration had a spreadsheet row and computed its working text
TextChosen ==
    /\ Iterated
    /\ LastRow.matched
    /\ ~FullText(LastRow).exc
    /\ ~AnnText(LastRow).exc

\* C17: the working text is one of the two extracted texts and as long as
\* the longer one; on a tie it is the textAnnotations text; it is empty only
\* when both are empty.
C17_LongerText ==
    TextChosen =>
        /\ last.text \in {FullText(LastRow).text, AnnText(LastRow).text}
        /\ Len(last.text) =
              Max(Len(FullText(LastRow).text), Len(AnnText(LastRow).text))
        /\ Len(FullText(LastRow).text) = Len(AnnText(LastRow).text) =>
              last.text = AnnText(LastRow).text
        /\ last.text = <<>> <=>
              (FullText(LastRow).text = <<>> /\ AnnText(LastRow).text = <<>>)

\* a row whose two texts differ and have the same, positive length
C17_Witness ==
    /\ TextChosen
    /\ FullText(LastRow).text # AnnText(LastRow).text
    /\ Len(FullText(LastRow).text) = Len(AnnText(LastRow).text)
    /\ last.text # <<>>

\* the except clause at line 503 ran before the image loop started: reading
\* the spreadsheets or the drug database failed
LoadFailed == failed /\ ~Iterated /\ drug_list = <<>>

\* process_prescriptions returned a DataFrame without rows
ReturnedEmpty == pc = "done" /\ result = <<>>

\* C14 as stated: a failure to load the drug catalog reaches the caller as
\* an error and is never turned into a normal, empty return value.
C14_LoadFailurePropagates == LoadFailed => ~ReturnedEmpty

\* process_prescriptions returned the list that ensure_min_prescriptions
\* extended
Finished == pc = "done" /\ ~failed

\* the image names of a record list
ImagesOf(records) == {records[i].image : i \in 1..Len(records)}

SameCitySameImage(records) ==
    \E i, j \in 1..Len(records) :
        /\ i # j
        /\ records[i].city = records[j].city
        /\ records[i].image = records[j].image

\* C16: no two records of the list, in the image loop or after
\* ensure_min_prescriptions, are in the same city with the same image name.
C16_NoImageTwiceInCity ==
    /\ ~SameCitySameImage(processed_data)
    /\ ~SameCitySameImage(result)

\* an image that occurs twice in the batch was refused for its city, and
\* ensure_min_prescriptions then added records of it for other cities
C16_Witness ==
    /\ Finished
    /\ last.outcome = "duplicate"
    /\ \E i \in 1..Len(result) :
          /\ result[i].prescription_id.src = "rx"
          /\ result[i].image = last.image

\* the city is one of the cities EGYPT_LOCATIONS lists for the governorate
CityOfGovernorate(r) ==
    \E g \in 1..Len(EGYPT_LOCATIONS) :
        /\ EGYPT_LOCATIONS[g].gov = r.governorate
        /\ \E k \in 1..Len(EGYPT_LOCATIONS[g].cities) :
              EGYPT_LOCATIONS[g].cities[k] = r.city

\* a record the output may hold
WellFormed(r) ==
    /\ r.drugs # <<>>
    /\ CityOfGovernorate(r)
    /\ image_to_record[r.image].matched

\* C20: every record of the list, in the image loop and in the returned
\* list that ensure_min_prescriptions extended, has a non-empty drug list
\* and a city of its governorate, and belongs to an image that has a
\* spreadsheet row.
C20_WellFormedRecords ==
    /\ \A i \in 1..Len(processed_data) : WellFormed(processed_data[i])
    /\ \A i \in 1..Len(result) : WellFormed(result[i])

\* the batch held an image without a spreadsheet row, and the returned list
\* holds a record that ensure_min_prescriptions added in another governorate
\* than that of its source
C20_Witness ==
    /\ Finished
    /\ unmatched_images > 0
    /\ \E i, j \in 1..Len(result) :
          /\ result[i].prescription_id.src = "sheet"
          /\ result[j].prescription_id.src = "rx"
          /\ result[j].image = result[i].image
          /\ result[j].governorate # result[i].governorate

\* two records of the list with one prescription_id
SameId(records) ==
    \E i, j \in 1..Len(records) :
        /\ i # j
        /\ records[i].prescription_id = records[j].prescription_id

\* C21 as stated: the prescription_id values of the records of the returned
\* list are pairwise distinct, across the records of the image loop and the
\* records that ensure_min_prescriptions appended.
C21_DistinctIds == Finished => ~SameId(result)

\* the list `after` starts with the records of `before`, unchanged
Extends(before, after) ==
    /\ Len(before) <= Len(after)
    /\ \A i \in 1..Len(before) : after[i] = before[i]

\* r has the drugs, the doctor name and the image name of a valid record of
\* the list
CopyOfSource(r, records_list) ==
    \E i \in 1..Len(records_list) :
        /\ records_list[i].drugs # <<>>
        /\ r.drugs = records_list[i].drugs
        /\ r.doctor_name = records_list[i].doctor_name
        /\ r.image = records_list[i].image

\* the step in which process_prescriptions calls ensure_min_prescriptions
EnsureStep == pc = "loop" /\ idx > Len(image_paths) /\ pc' = "done"

\* C22: ensure_min_prescriptions only appends: the returned list starts with
\* the records of its input, each at its position and unchanged, and every
\* record after them equals a valid record of the input in every field but
\* prescription_id, governorate, city and the folder of image_path.
C22_OnlyAppends ==
    [][EnsureStep =>
          /\ Extends(processed_data, result')
          /\ \A j \in (Len(processed_data) + 1)..Len(result') :
                CopyOfSource(result'[j], processed_data)]_vars

\* the returned list holds a spreadsheet record with a detected doctor name
\* and, after it, a duplicate of it for another city under a generated id
C22_Witness ==
    /\ Finished
    /\ \E i, j \in 1..Len(result) :
          /\ i < j
          /\ result[i].prescription_id.src = "sheet"
          /\ result[i].doctor_name # NotDetected
          /\ result[j].prescription_id = RX(j)
          /\ result[j].city # result[i].city
          /\ result[j].drugs = result[i].drugs
          /\ result[j].doctor_name = result[i].doctor_name
          /\ result[j].image = result[i].image
====
